---- MODULE Spec2Model ----
(***************************************************************************)
(* NPB/KBO over-under analysis: the console program (NPBKBO.py) and the    *)
(* Streamlit form (app.py).                                                *)
(*                                                                         *)
(* Python floats are modelled as exact rationals n/d (reduced, d > 0)      *)
(* extended with nan, +inf and -inf; None is a value of its own.  The      *)
(* grids of inputs are multiples of the constants of the scoring formula,  *)
(* so that every intermediate value is an exact rational.                  *)
(***************************************************************************)
EXTENDS Integers, Sequences, FiniteSets, TLC

(***************************************************************************)
(* Float values                                                            *)
(***************************************************************************)
RECURSIVE GCD(_, _)
GCD(a, b) == IF b = 0 THEN a ELSE GCD(b, a % b)

Abs(x) == IF x < 0 THEN -x ELSE x

\* the float n/d, reduced
Num(n, d) ==
    LET g == GCD(Abs(n), Abs(d))
        s == IF d < 0 THEN -1 ELSE 1
    IN  [k |-> "num", n |-> s * (n \div g), d |-> s * (d \div g)]

NaN  == [k |-> "nan",  n |-> 0, d |-> 1]
PInf == [k |-> "inf",  n |-> 0, d |-> 1]
NInf == [k |-> "ninf", n |-> 0, d |-> 1]
None == [k |-> "None", n |-> 0, d |-> 1]

IsNum(a)  == a.k = "num"
IsNaN(a)  == a.k = "nan"
IsNone(a) == a.k = "None"
IsFinite(a) == a.k = "num"

Sign(a) == CASE a.k = "inf" -> 1
             [] a.k = "ninf" -> -1
             [] a.k = "num" -> (IF a.n > 0 THEN 1 ELSE IF a.n < 0 THEN -1 ELSE 0)
             [] OTHER -> 0

InfOf(s) == IF s > 0 THEN PInf ELSE NInf

\* a/b < c/d for nonnegative a, c and positive b, d, by the continued
\* fraction expansion (no cross product is formed)
RECURSIVE LtPos(_, _, _, _)
LtPos(a, b, c, d) ==
    LET qa == a \div b
        qc == c \div d
        ra == a % b
        rc == c % d
    IN  IF qa # qc THEN qa < qc
        ELSE IF rc = 0 THEN FALSE
        ELSE IF ra = 0 THEN TRUE
        ELSE LtPos(d, rc, b, ra)

\* x < y on finite floats
NumLt(x, y) ==
    IF x.n < 0 /\ y.n >= 0 THEN TRUE
    ELSE IF x.n >= 0 /\ y.n < 0 THEN FALSE
    ELSE IF x.n >= 0 THEN LtPos(x.n, x.d, y.n, y.d)
    ELSE LtPos(-y.n, y.d, -x.n, x.d)

\* Python's x < y on floats: False as soon as one side is nan
FLt(x, y) ==
    CASE IsNaN(x) \/ IsNaN(y) -> FALSE
      [] IsNum(x) /\ IsNum(y) -> NumLt(x, y)
      [] OTHER -> (x.k = "ninf" /\ y.k # "ninf") \/ (y.k = "inf" /\ x.k # "inf")

FGt(x, y) == FLt(y, x)
FLe(x, y) == ~IsNaN(x) /\ ~IsNaN(y) /\ ~FLt(y, x)
FGe(x, y) == FLe(y, x)

\* Python's max(a, b): a unless b > a;  min(a, b): a unless b < a
PyMax(a, b) == IF FGt(b, a) THEN b ELSE a
PyMin(a, b) == IF FLt(b, a) THEN b ELSE a

FMul(x, y) ==
    CASE IsNaN(x) \/ IsNaN(y) -> NaN
      [] IsNum(x) /\ IsNum(y) ->
            LET g1 == GCD(Abs(x.n), y.d)
                g2 == GCD(Abs(y.n), x.d)
            IN  Num((x.n \div g1) * (y.n \div g2), (x.d \div g2) * (y.d \div g1))
      [] OTHER -> IF Sign(x) * Sign(y) = 0 THEN NaN ELSE InfOf(Sign(x) * Sign(y))

FAdd(x, y) ==
    CASE IsNaN(x) \/ IsNaN(y) -> NaN
      [] IsNum(x) /\ IsNum(y) ->
            LET g == GCD(x.d, y.d)
            IN  Num(x.n * (y.d \div g) + y.n * (x.d \div g), (x.d \div g) * y.d)
      [] IsNum(x) -> y
      [] IsNum(y) -> x
      [] OTHER -> IF x.k = y.k THEN x ELSE NaN

\* x / y for y # 0 (every divisor of the program is floored above 0)
FDiv(x, y) ==
    CASE IsNaN(x) \/ IsNaN(y) -> NaN
      [] IsNum(x) /\ IsNum(y) -> FMul(x, Num(y.d, y.n))
      [] IsNum(x) -> Num(0, 1)
      [] IsNum(y) -> InfOf(Sign(x) * Sign(y))
      [] OTHER -> NaN

(***************************************************************************)
(* State                                                                   *)
(***************************************************************************)
VARIABLES
    pc,            \* position of the program
    league,        \* "NPB" | "KBO"
    target,        \* betting total
    home, away,    \* team dictionaries
    full_scores,   \* (full_home, full_away)
    base_scores,   \* (base_home, base_away)
    full_results,  \* run_probability_models on the full scores
    base_results,  \* run_probability_models on the baseline scores
    app_scores,    \* app.py: (hs, as_)
    app_results,   \* app.py: what run_models gave the button handler
    draws,         \* what the samplers draw: the three empirical percentages
    team,          \* input_team_data: the values read so far
    side,          \* input_team_data: "home" | "away"
    status,        \* how the console session stands
    rounds,        \* analysis rounds started
    prob,          \* get_star_recommendation: its argument, in eighths of a percent
    rec            \* get_star_recommendation: its result

dataVars   == <<league, target, home, away>>
engineVars == <<full_scores, base_scores, full_results, base_results>>
appVars    == <<app_scores, app_results>>
inputVars  == <<team, side>>
recVars    == <<prob, rec>>
vars == <<pc, league, target, home, away, full_scores, base_scores, full_results,
          base_results, app_scores, app_results, draws, team, side, status, rounds,
          prob, rec>>

Unset == [k |-> "unset", n |-> 0, d |-> 1]
NoScores == <<Unset, Unset>>
NoResults == [raised |-> "unset", mc_prob |-> Unset, nb_prob |-> Unset,
              poisson_prob |-> Unset, final_prob |-> Unset]
NoTeam == [time_avg |-> Unset, base_avg |-> Unset, allow |-> Unset, over_rate |-> Unset,
           team_batting |-> Unset, team_obp |-> Unset,
           pitcher |-> [era |-> Unset, baa |-> Unset]]
NoRec == [rating |-> 0, dir |-> "none", shown |-> 0]

(***************************************************************************)
(* Score estimator                                                         *)
(***************************************************************************)
TeamFields(t) == {t.time_avg, t.base_avg, t.allow, t.over_rate, t.team_batting,
                  t.team_obp, t.pitcher.era, t.pitcher.baa}

league_factor(lg) == IF lg = "NPB" THEN Num(95, 100) ELSE Num(105, 100)

pitcher_factor(opp_pitcher) ==
    LET era_impact == FMul(FDiv(Num(45, 10), PyMax(Num(1, 100), opp_pitcher.era)), Num(7, 10))
        baa_impact == FMul(FDiv(Num(3, 10), PyMax(Num(1, 1000), opp_pitcher.baa)), Num(3, 10))
    IN  PyMin(Num(2, 1), FAdd(era_impact, baa_impact))

\* weighted_score without its floor of 0.1
weighted_score_nofloor(data, opp_pitcher, lf) ==
    LET batting_impact == FMul(FDiv(data.team_batting, PyMax(Num(1, 1000), Num(270, 1000))), Num(1, 2))
        obp_impact     == FMul(FDiv(data.team_obp, PyMax(Num(1, 1000), Num(340, 1000))), Num(1, 2))
        base_score     == FAdd(FAdd(FMul(data.time_avg, Num(1, 2)),
                                    FMul(data.base_avg, Num(3, 10))),
                               FMul(data.allow, Num(2, 10)))
    IN  FMul(FMul(FMul(FMul(base_score, lf),
                            FAdd(Num(8, 10), FMul(Num(2, 10), data.over_rate))),
                       FDiv(Num(1, 1), PyMax(Num(1, 10), pitcher_factor(opp_pitcher)))),
             FAdd(FAdd(Num(6, 10), batting_impact), obp_impact))

\* weighted_score multiplying by pitcher_factor instead of dividing by it
weighted_score_inverted(data, opp_pitcher, lf) ==
    LET batting_impact == FMul(FDiv(data.team_batting, PyMax(Num(1, 1000), Num(270, 1000))), Num(1, 2))
        obp_impact     == FMul(FDiv(data.team_obp, PyMax(Num(1, 1000), Num(340, 1000))), Num(1, 2))
        base_score     == FAdd(FAdd(FMul(data.time_avg, Num(1, 2)),
                                    FMul(data.base_avg, Num(3, 10))),
                               FMul(data.allow, Num(2, 10)))
    IN  PyMax(Num(1, 10),
              FMul(FMul(FMul(FMul(base_score, lf),
                                  FAdd(Num(8, 10), FMul(Num(2, 10), data.over_rate))),
                             PyMax(Num(1, 10), pitcher_factor(opp_pitcher))),
                   FAdd(FAdd(Num(6, 10), batting_impact), obp_impact)))

weighted_score(data, opp_pitcher, lf) ==
    LET batting_impact == FMul(FDiv(data.team_batting, PyMax(Num(1, 1000), Num(270, 1000))), Num(1, 2))
        obp_impact     == FMul(FDiv(data.team_obp, PyMax(Num(1, 1000), Num(340, 1000))), Num(1, 2))
        base_score     == FAdd(FAdd(FMul(data.time_avg, Num(1, 2)),
                                    FMul(data.base_avg, Num(3, 10))),
                               FMul(data.allow, Num(2, 10)))
    IN  PyMax(Num(1, 10),
              FMul(FMul(FMul(FMul(base_score, lf),
                                  FAdd(Num(8, 10), FMul(Num(2, 10), data.over_rate))),
                             FDiv(Num(1, 1), PyMax(Num(1, 10), pitcher_factor(opp_pitcher)))),
                   FAdd(FAdd(Num(6, 10), batting_impact), obp_impact)))

baseline_score(data, lf) ==
    FMul(FAdd(FMul(data.time_avg, Num(6, 10)), FMul(data.base_avg, Num(4, 10))), lf)

\* exc: an exception is raised inside the try body; arithmetic on a None field
\* raises TypeError.  Either way the except clause answers (None, None).
calculate_scores(h, a, lg, include_effects, exc) ==
    IF exc \/ (\E v \in TeamFields(h) \cup TeamFields(a) : IsNone(v))
    THEN <<None, None>>
    ELSE IF include_effects
         THEN <<weighted_score(h, a.pitcher, league_factor(lg)),
                weighted_score(a, h.pitcher, league_factor(lg))>>
         ELSE <<baseline_score(h, league_factor(lg)), baseline_score(a, league_factor(lg))>>

(***************************************************************************)
(* Probability engine                                                      *)
(***************************************************************************)
Zero == Num(0, 1)
Pct(x) == Num(x, 1)

NPB_STD_DEV == Num(23, 10)
NPB_NB_R    == Num(9, 1)
KBO_STD_DEV == Num(28, 10)
KBO_NB_R    == Num(75, 10)

\* numpy.random.normal(loc, scale, size): ValueError("scale < 0"); nan passes
NormalRaises(loc, scale) == FLt(scale, Zero)
\* scipy.stats.nbinom.rvs(n, p, size): ValueError("Domain error in arguments")
\* unless n > 0 and 0 < p <= 1
NbinomRaises(n, p) == ~(FGt(n, Zero) /\ FGt(p, Zero) /\ FLe(p, Num(1, 1)))
\* numpy.random.poisson(lam, size): ValueError when lam < 0, is nan or is too large
PoissonRaises(lam) == ~IsFinite(lam) \/ FLt(lam, Zero)

\* np.mean(samples > target) * 100 for a sum of two normal sample arrays
NormalPct(hs, as, hstd, astd, tgt, drawn) ==
    IF \E v \in {hs, as, hstd, astd} : ~IsFinite(v) THEN Zero       \* nan samples
    ELSE IF hstd = Zero /\ astd = Zero                             \* constant samples
         THEN (IF FGt(FAdd(hs, as), tgt) THEN Pct(100) ELSE Zero)
    ELSE IF IsFinite(tgt) THEN Pct(drawn)
    ELSE IF tgt = NInf THEN Pct(100) ELSE Zero

\* the same for a sum of two arrays of counts; allzero: every count is 0
CountPct(allzero, tgt, drawn) ==
    IF allzero THEN (IF FGt(Zero, tgt) THEN Pct(100) ELSE Zero)
    ELSE IF IsFinite(tgt) THEN (IF FLt(tgt, Zero) THEN Pct(100) ELSE Pct(drawn))
    ELSE IF tgt = NInf THEN Pct(100) ELSE Zero

Neutral == [raised |-> "", mc_prob |-> Pct(50), nb_prob |-> Pct(50),
            poisson_prob |-> Pct(50), final_prob |-> Pct(50)]
Raised(e) == [raised |-> e, mc_prob |-> Unset, nb_prob |-> Unset,
              poisson_prob |-> Unset, final_prob |-> Unset]

\* NPBKBO.py, the try body of run_probability_models: the result, or the
\* exception that leaves the body
models_body(home_score, away_score, tgt, lg, d) ==
    IF IsNone(home_score) \/ IsNone(away_score) THEN Raised("TypeError")
    ELSE
    LET std_dev  == IF lg = "NPB" THEN NPB_STD_DEV ELSE KBO_STD_DEV
        nb_r     == IF lg = "NPB" THEN NPB_NB_R ELSE KBO_NB_R
        total    == PyMax(Num(1, 10), FAdd(home_score, away_score))
        home_std == FMul(std_dev, FDiv(home_score, total))
        away_std == FMul(std_dev, FDiv(away_score, total))
        p_home   == FDiv(nb_r, PyMax(Num(1, 10), FAdd(nb_r, home_score)))
        p_away   == FDiv(nb_r, PyMax(Num(1, 10), FAdd(nb_r, away_score)))
        mc_prob  == NormalPct(home_score, away_score, home_std, away_std, tgt, d.mc)
        nb_prob  == CountPct(p_home = Num(1, 1) /\ p_away = Num(1, 1), tgt, d.nb)
        poisson_prob == CountPct(home_score = Zero /\ away_score = Zero, tgt, d.poisson)
        final_prob ==
            IF lg = "NPB"
            THEN FAdd(FAdd(FMul(mc_prob, Num(50, 100)), FMul(nb_prob, Num(35, 100))),
                      FMul(poisson_prob, Num(15, 100)))
            ELSE FAdd(FAdd(FMul(mc_prob, Num(60, 100)), FMul(nb_prob, Num(25, 100))),
                      FMul(poisson_prob, Num(15, 100)))
    IN  IF NormalRaises(home_score, home_std) \/ NormalRaises(away_score, away_std)
        THEN Raised("ValueError")
        ELSE IF IsNone(tgt) THEN Raised("TypeError")
        ELSE IF NbinomRaises(nb_r, p_home) \/ NbinomRaises(nb_r, p_away)
        THEN Raised("ValueError")
        ELSE IF PoissonRaises(home_score) \/ PoissonRaises(away_score)
        THEN Raised("ValueError")
        ELSE [raised |-> "", mc_prob |-> mc_prob, nb_prob |-> nb_prob,
              poisson_prob |-> poisson_prob, final_prob |-> final_prob]

\* a handler that catches ValueError only
models_handler_value_error(r) == IF r.raised = "ValueError" THEN Neutral ELSE r

\* except Exception as e: the neutral result
models_handler(r) == IF r.raised # "" THEN Neutral ELSE r

run_probability_models(home_score, away_score, tgt, lg, d) ==
    models_handler(models_body(home_score, away_score, tgt, lg, d))

(***************************************************************************)
(* app.py: the form's copy of the engine                                   *)
(***************************************************************************)
app_weighted_score(data, opp_pitcher, lf) ==
    LET era_impact     == FMul(FDiv(Num(45, 10), PyMax(Num(1, 100), opp_pitcher.era)), Num(7, 10))
        baa_impact     == FMul(FDiv(Num(3, 10), PyMax(Num(1, 1000), opp_pitcher.baa)), Num(3, 10))
        pf             == PyMin(Num(2, 1), FAdd(era_impact, baa_impact))
        batting_impact == FMul(FDiv(data.team_batting, PyMax(Num(1, 1000), Num(270, 1000))), Num(1, 2))
        obp_impact     == FMul(FDiv(data.team_obp, PyMax(Num(1, 1000), Num(340, 1000))), Num(1, 2))
        base_score     == FAdd(FAdd(FMul(data.time_avg, Num(1, 2)),
                                    FMul(data.base_avg, Num(3, 10))),
                               FMul(data.allow, Num(2, 10)))
    IN  PyMax(Num(1, 10),
              FMul(FMul(FMul(FMul(base_score, lf),
                                  FAdd(Num(8, 10), FMul(Num(2, 10), data.over_rate))),
                             FDiv(Num(1, 1), PyMax(Num(1, 10), pf))),
                   FAdd(FAdd(Num(6, 10), batting_impact), obp_impact)))

\* run_models has no try: an exception of a sampler leaves it
run_models(hs, as_, tgt, league_key, d) ==
    LET std_dev  == IF league_key = "NPB" THEN NPB_STD_DEV ELSE KBO_STD_DEV
        nb_r     == IF league_key = "NPB" THEN NPB_NB_R ELSE KBO_NB_R
        home_std == FMul(std_dev, FDiv(hs, PyMax(Num(1, 10), FAdd(hs, as_))))
        away_std == FMul(std_dev, FDiv(as_, PyMax(Num(1, 10), FAdd(hs, as_))))
        p_home   == FDiv(nb_r, PyMax(Num(1, 10), FAdd(nb_r, hs)))
        p_away   == FDiv(nb_r, PyMax(Num(1, 10), FAdd(nb_r, as_)))
        mc       == NormalPct(hs, as_, home_std, away_std, tgt, d.mc)
        nb       == CountPct(p_home = Num(1, 1) /\ p_away = Num(1, 1), tgt, d.nb)
        poisson  == CountPct(hs = Zero /\ as_ = Zero, tgt, d.poisson)
        final    ==
            IF league_key = "NPB"
            THEN FAdd(FAdd(FMul(mc, Num(50, 100)), FMul(nb, Num(35, 100))),
                      FMul(poisson, Num(15, 100)))
            ELSE FAdd(FAdd(FMul(mc, Num(60, 100)), FMul(nb, Num(25, 100))),
                      FMul(poisson, Num(15, 100)))
    IN  IF IsNone(hs) \/ IsNone(as_) THEN Raised("TypeError")
        ELSE IF NormalRaises(hs, home_std) \/ NormalRaises(as_, away_std)
        THEN Raised("ValueError")
        ELSE IF IsNone(tgt) THEN Raised("TypeError")
        ELSE IF NbinomRaises(nb_r, p_home) \/ NbinomRaises(nb_r, p_away)
        THEN Raised("ValueError")
        ELSE IF PoissonRaises(hs) \/ PoissonRaises(as_)
        THEN Raised("ValueError")
        ELSE [raised |-> "", mc_prob |-> mc, nb_prob |-> nb,
              poisson_prob |-> poisson, final_prob |-> final]

(***************************************************************************)
(* Recommendation                                                          *)
(***************************************************************************)
\* prob is given in eighths of a percent (p8 = 8 * prob): every such float is
\* exact, and so are prob - 50, 50 - prob and 100 - prob.
\* "%.1f" % x: x rounded to tenths, a tie going to the even digit
Fmt1(x8) ==
    LET q == (x8 * 5) \div 4
        r == (x8 * 5) % 4
    IN  IF r < 2 THEN q
        ELSE IF r > 2 THEN q + 1
        ELSE IF q % 2 = 0 THEN q ELSE q + 1

\* get_star_recommendation with the under branch showing prob itself
star_under_shows_prob(p8) ==
    LET strength == IF p8 >= 50 * 8 THEN p8 - 50 * 8 ELSE 50 * 8 - p8
    IN  [rating |-> IF strength >= 20 * 8 THEN 10 ELSE IF strength >= 10 * 8 THEN 8
                    ELSE IF strength >= 5 * 8 THEN 7 ELSE 6,
         dir    |-> IF p8 >= 50 * 8 THEN "over" ELSE "under",
         shown  |-> Fmt1(p8)]

\* get_star_recommendation with "strength > 20" for "strength >= 20"
star_strict_top(p8) ==
    LET strength == IF p8 >= 50 * 8 THEN p8 - 50 * 8 ELSE 50 * 8 - p8
    IN  [rating |-> IF strength > 20 * 8 THEN 10 ELSE IF strength >= 10 * 8 THEN 8
                    ELSE IF strength >= 5 * 8 THEN 7 ELSE 6,
         dir    |-> IF p8 >= 50 * 8 THEN "over" ELSE "under",
         shown  |-> IF p8 >= 50 * 8 THEN Fmt1(p8) ELSE Fmt1(100 * 8 - p8)]

\* get_star_recommendation with "prob > 50" for "prob >= 50"
star_strict_over(p8) ==
    LET strength == IF p8 > 50 * 8 THEN p8 - 50 * 8 ELSE 50 * 8 - p8
    IN  [rating |-> IF strength >= 20 * 8 THEN 10 ELSE IF strength >= 10 * 8 THEN 8
                    ELSE IF strength >= 5 * 8 THEN 7 ELSE 6,
         dir    |-> IF p8 > 50 * 8 THEN "over" ELSE "under",
         shown  |-> IF p8 > 50 * 8 THEN Fmt1(p8) ELSE Fmt1(100 * 8 - p8)]

\* the rating (in half stars, 10 = 5.0), the direction of the label and the
\* percentage its text shows (in tenths)
get_star_recommendation(p8) ==
    IF p8 >= 50 * 8
    THEN LET strength == p8 - 50 * 8
         IN  IF strength >= 20 * 8 THEN [rating |-> 10, dir |-> "over", shown |-> Fmt1(p8)]
             ELSE IF strength >= 10 * 8 THEN [rating |-> 8, dir |-> "over", shown |-> Fmt1(p8)]
             ELSE IF strength >= 5 * 8 THEN [rating |-> 7, dir |-> "over", shown |-> Fmt1(p8)]
             ELSE [rating |-> 6, dir |-> "over", shown |-> Fmt1(p8)]
    ELSE LET strength == 50 * 8 - p8
         IN  IF strength >= 20 * 8 THEN [rating |-> 10, dir |-> "under", shown |-> Fmt1(100 * 8 - p8)]
             ELSE IF strength >= 10 * 8 THEN [rating |-> 8, dir |-> "under", shown |-> Fmt1(100 * 8 - p8)]
             ELSE IF strength >= 5 * 8 THEN [rating |-> 7, dir |-> "under", shown |-> Fmt1(100 * 8 - p8)]
             ELSE [rating |-> 6, dir |-> "under", shown |-> Fmt1(100 * 8 - p8)]

(***************************************************************************)
(* Input grids                                                             *)
(***************************************************************************)
MaxAvg == 1

Leagues == {"NPB", "KBO"}
AvgGrid == {Num(k, 1) : k \in 0..MaxAvg}

Pitchers == [era : {Num(0, 1), Num(9, 2)}, baa : {Num(3, 10), Num(1, 1)}]

\* valid team dictionaries: averages and era >= 0, rates in [0, 1]
Teams ==
    [time_avg     : AvgGrid,
     base_avg     : {Num(0, 1), Num(4, 1)},
     allow        : {Num(0, 1), Num(4, 1)},
     over_rate    : {Num(0, 1), Num(1, 2)},
     team_batting : {Num(0, 1), Num(27, 100)},
     team_obp     : {Num(34, 100)},
     pitcher      : Pitchers]

\* teams with a league-average batting line and any of the pitchers
Opponents ==
    [time_avg     : {Num(4, 1)},
     base_avg     : {Num(42, 10)},
     allow        : {Num(38, 10)},
     over_rate    : {Num(1, 2)},
     team_batting : {Num(27, 100)},
     team_obp     : {Num(34, 100)},
     pitcher      : Pitchers]

\* the pairs the estimator is run on: one side any team, the other an opponent
Pairs == (Teams \X Opponents) \cup (Opponents \X Teams)

\* finer grids of one field, for comparing a score with its neighbours
BattingFine == {Num(0, 1), Num(27, 200), Num(27, 100), Num(54, 100), Num(1, 1)}
ObpFine     == {Num(0, 1), Num(17, 100), Num(34, 100), Num(1, 1)}
EraFine     == {Num(0, 1), Num(1, 100), Num(63, 20), Num(9, 2), Num(63, 2), Num(630, 1)}
BaaFine     == {Num(0, 1), Num(9, 100), Num(3, 10), Num(1, 1)}

NoDraws == [mc |-> 0, nb |-> 0, poisson |-> 0]

(***************************************************************************)
(* The score estimator on every valid pair of teams                        *)
(***************************************************************************)
InitScore ==
    /\ pc = "score_call"
    /\ league \in Leagues
    /\ target = Unset
    /\ \E pr \in Pairs : home = pr[1] /\ away = pr[2]
    /\ full_scores = NoScores /\ base_scores = NoScores
    /\ full_results = NoResults /\ base_results = NoResults
    /\ app_scores = NoScores /\ app_results = NoResults
    /\ draws = NoDraws
    /\ team = <<>> /\ side = "none"
    /\ status = "none" /\ rounds = 0
    /\ prob = 0 /\ rec = NoRec

\* calculate_scores(home, away, league, True)
CalcFull ==
    /\ pc = "score_call"
    /\ full_scores' = calculate_scores(home, away, league, TRUE, FALSE)
    /\ pc' = "full_done"
    /\ UNCHANGED <<dataVars, base_scores, full_results, base_results, appVars, draws,
                   inputVars, status, rounds, recVars>>

\* calculate_scores(home, away, league, False)
CalcBase ==
    /\ pc = "full_done"
    /\ base_scores' = calculate_scores(home, away, league, FALSE, FALSE)
    /\ pc' = "base_done"
    /\ UNCHANGED <<dataVars, full_scores, full_results, base_results, appVars, draws,
                   inputVars, status, rounds, recVars>>

\* app.py, the button handler: hs and as_ from its own weighted_score
AppScores ==
    /\ pc = "base_done"
    /\ app_scores' = <<app_weighted_score(home, away.pitcher, league_factor(league)),
                       app_weighted_score(away, home.pitcher, league_factor(league))>>
    /\ pc' = "app_done"
    /\ UNCHANGED <<dataVars, engineVars, app_results, draws, inputVars, status, rounds,
                   recVars>>

NextScore == CalcFull \/ CalcBase \/ AppScores

SpecScore == InitScore /\ [][NextScore]_vars

FullDone == pc \in {"full_done", "base_done", "app_done"}
BaseDone == pc \in {"base_done", "app_done"}

\* C3 as stated: on every valid pair of teams and in both leagues, calculate_scores
\* returns a strictly positive home score and a strictly positive away score, in
\* full mode and in baseline mode.
C3_StrictlyPositiveBothModes ==
    /\ FullDone => FGt(full_scores[1], Zero) /\ FGt(full_scores[2], Zero)
    /\ BaseDone => FGt(base_scores[1], Zero) /\ FGt(base_scores[2], Zero)

\* C3 amended: in full mode both scores are at least 0.1, hence strictly positive;
\* in baseline mode, which has no floor, a score is never negative and is 0 exactly
\* when the side's time_avg and base_avg are both 0.
C3_FloorInFullModeOnly ==
    /\ FullDone => FGe(full_scores[1], Num(1, 10)) /\ FGe(full_scores[2], Num(1, 10))
    /\ BaseDone =>
          /\ FGe(base_scores[1], Zero) /\ FGe(base_scores[2], Zero)
          /\ (base_scores[1] = Zero) <=> (home.time_avg = Zero /\ home.base_avg = Zero)
          /\ (base_scores[2] = Zero) <=> (away.time_avg = Zero /\ away.base_avg = Zero)

\* a pair where the floor of the full mode applies and the baseline score is 0
C3_Witness ==
    /\ BaseDone
    /\ home.time_avg = Zero /\ home.base_avg = Zero /\ home.allow = Zero
    /\ full_scores[1] = Num(1, 10)
    /\ base_scores[1] = Zero
    /\ FGt(base_scores[2], Zero)

\* the score of one side is between its scores for a smaller and a larger value
\* of one field; ws is the front end's weighted_score, got its stored score
BattingMonotone(ws(_, _, _), got, data, opp) ==
    \A b \in BattingFine :
        LET other == ws([data EXCEPT !.team_batting = b], opp, league_factor(league))
        IN  /\ FLe(data.team_batting, b) => FLe(got, other)
            /\ FLe(b, data.team_batting) => FLe(other, got)

ObpMonotone(ws(_, _, _), got, data, opp) ==
    \A b \in ObpFine :
        LET other == ws([data EXCEPT !.team_obp = b], opp, league_factor(league))
        IN  /\ FLe(data.team_obp, b) => FLe(got, other)
            /\ FLe(b, data.team_obp) => FLe(other, got)

EraMonotone(ws(_, _, _), got, data, opp) ==
    \A e \in EraFine :
        LET other == ws(data, [opp EXCEPT !.era = e], league_factor(league))
        IN  /\ FLe(opp.era, e) => FLe(got, other)
            /\ FLe(e, opp.era) => FLe(other, got)

BaaMonotone(ws(_, _, _), got, data, opp) ==
    \A b \in BaaFine :
        LET other == ws(data, [opp EXCEPT !.baa = b], league_factor(league))
        IN  /\ FLe(opp.baa, b) => FLe(got, other)
            /\ FLe(b, opp.baa) => FLe(other, got)

Monotone(ws(_, _, _), got, data, opp) ==
    /\ BattingMonotone(ws, got, data, opp)
    /\ ObpMonotone(ws, got, data, opp)
    /\ EraMonotone(ws, got, data, opp)
    /\ BaaMonotone(ws, got, data, opp)

\* C10: in full mode, every other field held fixed, a side's score never falls when
\* its team_batting or team_obp rises, nor when the opposing pitcher's era or baa
\* rises; in NPBKBO.py and in app.py, with the cap of pitcher_factor and the floor
\* of the score included.
C10_FullScoreMonotone ==
    /\ pc = "full_done" =>
                   /\ Monotone(weighted_score, full_scores[1], home, away.pitcher)
                   /\ Monotone(weighted_score, full_scores[2], away, home.pitcher)
    /\ pc = "app_done" =>
                   /\ Monotone(app_weighted_score, app_scores[1], home, away.pitcher)
                   /\ Monotone(app_weighted_score, app_scores[2], away, home.pitcher)

\* the cap of pitcher_factor applies (era 0), the home score is above its floor and
\* rises strictly for a worse opposing pitcher and for a better batting line; and
\* the away side sits on the floor
C10_Witness ==
    /\ pc = "app_done"
    /\ pitcher_factor(away.pitcher) = Num(2, 1)
    /\ FGt(full_scores[1], Num(1, 10))
    /\ \E e \in EraFine :
          FLt(full_scores[1], weighted_score(home, [away.pitcher EXCEPT !.era = e],
                                             league_factor(league)))
    /\ \E b \in BattingFine :
          FLt(full_scores[1], weighted_score([home EXCEPT !.team_batting = b], away.pitcher,
                                             league_factor(league)))
    /\ full_scores[2] = Num(1, 10)
    /\ app_scores = full_scores

(***************************************************************************)
(* The recommendation on every final_prob of [0, 100], in eighths          *)
(***************************************************************************)
ProbGrid == 0..(100 * 8)

InitRec ==
    /\ pc = "rec_call"
    /\ prob \in ProbGrid
    /\ rec = NoRec
    /\ league = "NPB" /\ target = Unset /\ home = NoTeam /\ away = NoTeam
    /\ full_scores = NoScores /\ base_scores = NoScores
    /\ full_results = NoResults /\ base_results = NoResults
    /\ app_scores = NoScores /\ app_results = NoResults
    /\ draws = NoDraws
    /\ team = <<>> /\ side = "none"
    /\ status = "none" /\ rounds = 0

Recommend ==
    /\ pc = "rec_call"
    /\ rec' = get_star_recommendation(prob)
    /\ pc' = "rec_done"
    /\ UNCHANGED <<dataVars, engineVars, appVars, draws, inputVars, status, rounds, prob>>

NextRec == Recommend

SpecRec == InitRec /\ [][NextRec]_vars

\* prob - 50 or 50 - prob, in eighths
Strength8 == IF prob >= 400 THEN prob - 400 ELSE 400 - prob

\* C6: for every final_prob of [0, 100] the over branch is taken when
\* final_prob >= 50 and the under branch otherwise, the under label showing
\* 100 - final_prob; the rating is 5.0 from strength 20, 4.0 from 10, 3.5 from 5 and
\* 3.0 below, so it is one of 3.0, 3.5, 4.0 and 5.0.
C6_BranchAndRating ==
    pc = "rec_done" =>
        /\ (rec.dir = "over") <=> (prob >= 400)
        /\ (rec.dir = "under") <=> (prob < 400)
        \* the text shows the percentage to within half a tenth (in 1/80)
        /\ rec.dir = "over" => 8 * rec.shown \in (10 * prob - 4)..(10 * prob + 4)
        /\ rec.dir = "under" =>
               8 * rec.shown \in (10 * (800 - prob) - 4)..(10 * (800 - prob) + 4)
        /\ (rec.rating = 10) <=> (Strength8 >= 160)
        /\ (rec.rating = 8) <=> (Strength8 >= 80 /\ Strength8 < 160)
        /\ (rec.rating = 7) <=> (Strength8 >= 40 /\ Strength8 < 80)
        /\ (rec.rating = 6) <=> (Strength8 < 40)
        /\ rec.rating \in {6, 7, 8, 10}

\* an under recommendation whose text shows 100 - final_prob, rounded at a tie
C6_Witness ==
    /\ pc = "rec_done"
    /\ prob = 8 * 37 + 2
    /\ rec = [rating |-> 8, dir |-> "under", shown |-> 628]

\* C7 as stated: 70.0 gives rating 4.0 with an over label showing 70.0%, and 30.0
\* gives rating 4.0 with an under label showing 70.0%.
C7_FourStarsAt70And30 ==
    pc = "rec_done" =>
        /\ prob = 70 * 8 => rec = [rating |-> 8, dir |-> "over", shown |-> 700]
        /\ prob = 30 * 8 => rec = [rating |-> 8, dir |-> "under", shown |-> 700]

\* C7 amended: 70.0 gives rating 5.0 with an over label showing 70.0%, and 30.0
\* gives rating 5.0 with an under label showing 70.0% (strength 20 is the top tier).
C7_FiveStarsAt70And30 ==
    pc = "rec_done" =>
        /\ prob = 70 * 8 => rec = [rating |-> 10, dir |-> "over", shown |-> 700]
        /\ prob = 30 * 8 => rec = [rating |-> 10, dir |-> "under", shown |-> 700]

C7_Witness == pc = "rec_done" /\ prob = 30 * 8 /\ rec.shown = 700

\* C8 as stated: 50.0 gives rating 3.0 and an under label showing 50.0.
C8_UnderAt50 ==
    pc = "rec_done" /\ prob = 50 * 8 =>
        rec = [rating |-> 6, dir |-> "under", shown |-> 500]

\* C8 amended: 50.0 gives rating 3.0 and an over label showing 50.0 (the tie goes
\* to the over branch).
C8_OverAt50 ==
    pc = "rec_done" /\ prob = 50 * 8 =>
        rec = [rating |-> 6, dir |-> "over", shown |-> 500]

C8_Witness == pc = "rec_done" /\ prob = 50 * 8 /\ rec.rating = 6

(***************************************************************************)
(* run_probability_models on arbitrary arguments                           *)
(***************************************************************************)
\* what the samplers may draw: the empirical percentages of the three models
DrawPcts == {0, 37, 100}
Draws == [mc : DrawPcts, nb : DrawPcts, poisson : DrawPcts]

ScoreArgs  == {None, NaN, PInf, Num(-1, 1), Zero, Num(1, 10), Num(4, 1)}
TargetArgs == {None, NaN, Zero, Num(17, 2)}

InitEngine ==
    /\ pc = "models_call"
    /\ league \in Leagues
    /\ target \in TargetArgs
    /\ full_scores \in ScoreArgs \X ScoreArgs
    /\ draws \in Draws
    /\ home = NoTeam /\ away = NoTeam
    /\ base_scores = NoScores
    /\ full_results = NoResults /\ base_results = NoResults
    /\ app_scores = NoScores /\ app_results = NoResults
    /\ team = <<>> /\ side = "none"
    /\ status = "none" /\ rounds = 0
    /\ prob = 0 /\ rec = NoRec

\* the caller gets what run_probability_models returns, or its exception
CallModels ==
    /\ pc = "models_call"
    /\ full_results' = run_probability_models(full_scores[1], full_scores[2], target,
                                               league, draws)
    /\ pc' = "models_done"
    /\ UNCHANGED <<dataVars, full_scores, base_scores, base_results, appVars, draws,
                   inputVars, status, rounds, recVars>>

NextEngine == CallModels

SpecEngine == InitEngine /\ [][NextEngine]_vars

\* one of the three model computations fails on the arguments of the call
ModelFails ==
    \/ IsNone(full_scores[1]) \/ IsNone(full_scores[2]) \/ IsNone(target)
    \/ \E v \in {full_scores[1], full_scores[2]} : ~IsFinite(v) \/ FLt(v, Zero)

\* C1: whatever the arguments (None and non-finite scores included), a failure of
\* a model computation never reaches the caller of run_probability_models: the
\* call returns mc_prob, nb_prob, poisson_prob and final_prob all 50.0.
C1_FailureGivesNeutral ==
    pc = "models_done" =>
        /\ full_results.raised = ""
        /\ ModelFails => full_results = Neutral

\* a None score (TypeError) with a finite target: the neutral result
C1_Witness ==
    /\ pc = "models_done"
    /\ IsNone(full_scores[1]) /\ full_scores[2] = Num(4, 1) /\ target = Num(17, 2)
    /\ draws.mc = 37
    /\ full_results = Neutral

(***************************************************************************)
(* The two front ends on the same teams, league, target and draws          *)
(***************************************************************************)
\* league-average teams, teams that never score, and teams whose time_avg is so
\* large that the product of weighted_score is inf
EquivTeams ==
    Opponents
    \cup {[o EXCEPT !.time_avg = Zero, !.base_avg = Zero, !.allow = Zero] : o \in Opponents}
    \cup {[o EXCEPT !.time_avg = PInf] : o \in Opponents}

Targets == {Zero, Num(17, 2)}

InitEquiv ==
    /\ pc = "equiv_call"
    /\ league \in Leagues
    /\ target \in Targets
    /\ home \in EquivTeams
    /\ away \in EquivTeams
    /\ draws \in Draws
    /\ full_scores = NoScores /\ base_scores = NoScores
    /\ full_results = NoResults /\ base_results = NoResults
    /\ app_scores = NoScores /\ app_results = NoResults
    /\ team = <<>> /\ side = "none"
    /\ status = "none" /\ rounds = 0
    /\ prob = 0 /\ rec = NoRec

\* NPBKBO.py, main: the full-model analysis
ConsoleFull ==
    /\ pc = "equiv_call"
    /\ LET sc == calculate_scores(home, away, league, TRUE, FALSE)
       IN  /\ full_scores' = sc
           /\ full_results' = run_probability_models(sc[1], sc[2], target, league, draws)
    /\ pc' = "console_done"
    /\ UNCHANGED <<dataVars, base_scores, base_results, appVars, draws, inputVars, status,
                   rounds, recVars>>

\* app.py, the button handler
AppButton ==
    /\ pc = "console_done"
    /\ LET hs  == app_weighted_score(home, away.pitcher, league_factor(league))
           as_ == app_weighted_score(away, home.pitcher, league_factor(league))
       IN  /\ app_scores' = <<hs, as_>>
           /\ app_results' = run_models(hs, as_, target, league, draws)
    /\ pc' = "equiv_done"
    /\ UNCHANGED <<dataVars, engineVars, draws, inputVars, status, rounds, recVars>>

NextEquiv == ConsoleFull \/ AppButton

SpecEquiv == InitEquiv /\ [][NextEquiv]_vars

\* C9 as stated: on the same teams, league, target and draws, app.py's
\* weighted_score and run_models give the scores and the four results of
\* calculate_scores(include_effects=True) and run_probability_models, on every
\* outcome, a failing model computation (neutral 50/50/50/50) included.
C9_SameScoresAndResults ==
    pc = "equiv_done" =>
        /\ app_scores = full_scores
        /\ app_results = full_results

(***************************************************************************)
(* The console front end                                                   *)
(***************************************************************************)
MaxRounds == 2

\* what the user may type at a menu or name prompt, at a yes/no prompt, and at a
\* prompt for a number (Keys in a whole session, KeysWide for one dictionary)
MenuKeys == {"1", "2"}
YesNo    == {"y", "n"}
Keys     == {"y", "-1", "0", "4"}
KeysWide == {"", "y", "-1", "0.5", "2", "nan", "inf"}

ValueError == [k |-> "ValueError", n |-> 0, d |-> 1]

\* float(user_input) on the lines above
ParseFloat(txt) ==
    CASE txt = "-1"  -> Num(-1, 1)
      [] txt = "0"   -> Num(0, 1)
      [] txt = "0.5" -> Num(1, 2)
      [] txt = "1"   -> Num(1, 1)
      [] txt = "2"   -> Num(2, 1)
      [] txt = "4"   -> Num(4, 1)
      [] txt = "nan" -> NaN
      [] txt = "inf" -> PInf
      [] OTHER       -> ValueError

\* s.lower().startswith('y')
StartsWithY(txt) == txt = "y"

\* one turn of safe_input's loop on a typed line (default is None at every call of
\* the program): the value returned, or a new prompt
safe_input(txt, min_val, max_val) ==
    LET val == ParseFloat(txt)
    IN  IF val = ValueError THEN [returned |-> FALSE, val |-> Unset]
        ELSE IF ~IsNone(min_val) /\ FLt(val, min_val) THEN [returned |-> FALSE, val |-> Unset]
        ELSE IF ~IsNone(max_val) /\ FGt(val, max_val) THEN [returned |-> FALSE, val |-> Unset]
        ELSE [returned |-> TRUE, val |-> val]

\* input_team_data: the prompts of the dictionary, in order
FieldNames == <<"time_avg", "base_avg", "allow", "over_rate", "team_batting", "team_obp",
                "era", "baa">>
FieldMax(i) == IF FieldNames[i] = "over_rate" THEN Num(100, 1)
               ELSE IF FieldNames[i] \in {"team_batting", "team_obp", "baa"} THEN Num(1, 1)
               ELSE None
\* what the dictionary keeps of the value read
FieldValue(i, v) == IF FieldNames[i] = "over_rate" THEN FDiv(v, Num(100, 1)) ELSE v

MkTeam(vs) ==
    [time_avg |-> vs[1], base_avg |-> vs[2], allow |-> vs[3], over_rate |-> vs[4],
     team_batting |-> vs[5], team_obp |-> vs[6], pitcher |-> [era |-> vs[7], baa |-> vs[8]]]

\* the sanity check asks for a confirmation
NeedsConfirm(t) == FGt(t.time_avg, FMul(t.base_avg, Num(3, 2)))

\* display_results formats both scores with ".2f": TypeError on None
display_raises(sc) == IsNone(sc[1]) \/ IsNone(sc[2])

Running == status = "running"

Init ==
    /\ pc = "league"
    /\ status = "running"
    /\ rounds = 1
    /\ league = "none" /\ target = Unset /\ home = NoTeam /\ away = NoTeam
    /\ full_scores = NoScores /\ base_scores = NoScores
    /\ full_results = NoResults /\ base_results = NoResults
    /\ app_scores = NoScores /\ app_results = NoResults
    /\ draws = NoDraws
    /\ team = <<>> /\ side = "none"
    /\ prob = 0 /\ rec = NoRec

\* main, lines 189-192: the four plain prompts
MainPrompt ==
    /\ Running
    /\ pc \in {"league", "period", "home_name", "away_name"}
    /\ \E txt \in MenuKeys :
          /\ league' = IF pc = "league" THEN (IF txt = "1" THEN "NPB" ELSE "KBO") ELSE league
          /\ pc' = CASE pc = "league" -> "period"
                      [] pc = "period" -> "home_name"
                      [] pc = "home_name" -> "away_name"
                      [] OTHER -> "target"
    /\ UNCHANGED <<target, home, away, engineVars, appVars, draws, inputVars, status,
                   rounds, recVars>>

\* main, line 193: target = safe_input(..., min_val=0)
TargetPrompt(K) ==
    /\ Running
    /\ pc = "target"
    /\ \E txt \in K :
          LET r == safe_input(txt, Zero, None)
          IN  IF r.returned
              THEN /\ target' = r.val
                   /\ pc' = "field" /\ side' = "home" /\ team' = <<>>
              ELSE UNCHANGED <<target, pc, side, team>>
    /\ UNCHANGED <<league, home, away, engineVars, appVars, draws, status, rounds, recVars>>

\* input_team_data returns the dictionary to main (lines 196-197)
ReturnTeam(t) ==
    IF side = "home"
    THEN /\ home' = t /\ away' = away
         /\ side' = "away" /\ team' = <<>> /\ pc' = "field"
    ELSE /\ away' = t /\ home' = home
         /\ side' = side /\ team' = <<>> /\ pc' = "calc_full"

\* input_team_data, lines 43-51: one safe_input of the dictionary; after the last
\* one the sanity check of lines 56-60
FieldPrompt(K) ==
    /\ Running
    /\ pc = "field"
    /\ \E txt \in K :
          LET i == Len(team) + 1
              r == safe_input(txt, Zero, FieldMax(i))
              vs == Append(team, FieldValue(i, r.val))
          IN  IF ~r.returned THEN UNCHANGED <<pc, team, side, home, away>>
              ELSE IF i < Len(FieldNames)
              THEN team' = vs /\ UNCHANGED <<pc, side, home, away>>
              ELSE IF NeedsConfirm(MkTeam(vs))
              THEN team' = vs /\ pc' = "confirm" /\ UNCHANGED <<side, home, away>>
              ELSE ReturnTeam(MkTeam(vs))
    /\ UNCHANGED <<league, target, engineVars, appVars, draws, status, rounds, recVars>>

\* input_team_data, line 58: the confirmation of the sanity check
ConfirmPrompt ==
    /\ Running
    /\ pc = "confirm"
    /\ \E txt \in YesNo :
          IF StartsWithY(txt)
          THEN ReturnTeam(MkTeam(team))
          ELSE team' = <<>> /\ pc' = "field" /\ UNCHANGED <<side, home, away>>
    /\ UNCHANGED <<league, target, engineVars, appVars, draws, status, rounds, recVars>>

\* the draws of a session: the three models agree
SessionDraws == {d \in Draws : d.mc = d.nb /\ d.nb = d.poisson /\ d.mc # 0}

\* main, line 200; exc: an exception is raised inside calculate_scores' try body
CalcFullStep ==
    /\ Running
    /\ pc = "calc_full"
    /\ \E exc \in BOOLEAN : full_scores' = calculate_scores(home, away, league, TRUE, exc)
    /\ pc' = "models_full"
    /\ UNCHANGED <<dataVars, base_scores, full_results, base_results, appVars, draws,
                   inputVars, status, rounds, recVars>>

\* main, line 201: full_home and full_away go to run_probability_models as they are
ModelsFullStep ==
    /\ Running
    /\ pc = "models_full"
    /\ \E d \in SessionDraws :
          /\ draws' = d
          /\ full_results' = run_probability_models(full_scores[1], full_scores[2], target,
                                                     league, d)
    /\ pc' = "calc_base"
    /\ UNCHANGED <<dataVars, full_scores, base_scores, base_results, appVars, inputVars,
                   status, rounds, recVars>>

\* main, line 204
CalcBaseStep ==
    /\ Running
    /\ pc = "calc_base"
    /\ \E exc \in BOOLEAN : base_scores' = calculate_scores(home, away, league, FALSE, exc)
    /\ pc' = "models_base"
    /\ UNCHANGED <<dataVars, full_scores, full_results, base_results, appVars, draws,
                   inputVars, status, rounds, recVars>>

\* main, line 205
ModelsBaseStep ==
    /\ Running
    /\ pc = "models_base"
    /\ \E d \in SessionDraws :
          /\ draws' = d
          /\ base_results' = run_probability_models(base_scores[1], base_scores[2], target,
                                                     league, d)
    /\ pc' = "display"
    /\ UNCHANGED <<dataVars, full_scores, base_scores, full_results, appVars, inputVars,
                   status, rounds, recVars>>

\* main, lines 208-217: both display_results and the difference; a TypeError of
\* display_results goes to "except Exception" (line 226) and its prompt
DisplayStep ==
    /\ Running
    /\ pc = "display"
    /\ pc' = IF display_raises(full_scores) \/ display_raises(base_scores)
             THEN "error_continue" ELSE "continue"
    /\ UNCHANGED <<dataVars, engineVars, appVars, draws, inputVars, status, rounds, recVars>>

\* the loop of main goes round: every local of the round is assigned again before
\* it is read
NewRound ==
    /\ rounds < MaxRounds
    /\ rounds' = rounds + 1
    /\ pc' = "league"
    /\ league' = "none" /\ target' = Unset /\ home' = NoTeam /\ away' = NoTeam
    /\ full_scores' = NoScores /\ base_scores' = NoScores
    /\ full_results' = NoResults /\ base_results' = NoResults
    /\ draws' = NoDraws
    /\ team' = <<>> /\ side' = "none"
    /\ UNCHANGED <<appVars, status, recVars>>

\* the process is over: its locals are gone
EndSession(how) ==
    /\ status' = how
    /\ league' = "none" /\ target' = Unset /\ home' = NoTeam /\ away' = NoTeam
    /\ full_scores' = NoScores /\ base_scores' = NoScores
    /\ full_results' = NoResults /\ base_results' = NoResults
    /\ draws' = NoDraws
    /\ team' = <<>> /\ side' = "none"
    /\ UNCHANGED <<pc, appVars, rounds, recVars>>

\* main, line 219 ("continue") and line 228 ("error_continue"): y goes round,
\* anything else breaks
ContinuePrompt ==
    /\ Running
    /\ pc \in {"continue", "error_continue"}
    /\ \E txt \in YesNo : IF StartsWithY(txt) THEN NewRound ELSE EndSession("ended")

\* KeyboardInterrupt at the prompt the program waits at
Interrupt ==
    /\ Running
    /\ pc \in {"league", "period", "home_name", "away_name", "target", "field", "confirm",
                "continue", "error_continue"}
    /\ CASE pc \in {"target", "field"} ->
                \* safe_input, lines 31-33: sys.exit(0); SystemExit is no Exception
                EndSession("exit0")
         [] pc = "error_continue" ->
                \* line 228 is inside the except clause: no handler covers it
                EndSession("uncaught KeyboardInterrupt")
         [] OTHER ->
                \* lines 223-225 (line 58 is not covered by "except Exception")
                EndSession("ended")

\* EOFError at the prompt the program waits at (the input is closed, or Ctrl-D)
EndOfFile ==
    /\ Running
    /\ pc \in {"league", "period", "home_name", "away_name", "target", "field", "confirm",
                "continue", "error_continue"}
    /\ CASE pc \in {"field", "confirm"} ->
                \* input_team_data, lines 61-62: the dictionary is asked again
                /\ team' = <<>> /\ pc' = "field"
                /\ UNCHANGED <<dataVars, engineVars, appVars, draws, side, status, rounds,
                               recVars>>
         [] pc = "error_continue" ->
                EndSession("uncaught EOFError")
         [] OTHER ->
                \* main, lines 226-228
                /\ pc' = "error_continue"
                /\ UNCHANGED <<dataVars, engineVars, appVars, draws, inputVars, status,
                               rounds, recVars>>

Next ==
    \/ MainPrompt
    \/ TargetPrompt(Keys)
    \/ FieldPrompt(Keys)
    \/ ConfirmPrompt
    \/ CalcFullStep
    \/ ModelsFullStep
    \/ CalcBaseStep
    \/ ModelsBaseStep
    \/ DisplayStep
    \/ ContinuePrompt
    \/ Interrupt
    \/ EndOfFile

Spec == Init /\ [][Next]_vars

(***************************************************************************)
(* input_team_data alone, on a wider choice of typed lines: main has read  *)
(* the league, the target and the home team and now reads the away team    *)
(***************************************************************************)
HomeTyped == MkTeam([i \in 1..Len(FieldNames) |-> FieldValue(i, ParseFloat("0.5"))])

InitInput ==
    /\ pc = "field"
    /\ status = "running"
    /\ rounds = 1
    /\ league \in Leagues
    /\ target = ParseFloat("0.5")
    /\ home = HomeTyped
    /\ away = NoTeam
    /\ full_scores = NoScores /\ base_scores = NoScores
    /\ full_results = NoResults /\ base_results = NoResults
    /\ app_scores = NoScores /\ app_results = NoResults
    /\ draws = NoDraws
    /\ team = <<>> /\ side = "away"
    /\ prob = 0 /\ rec = NoRec

NextInput ==
    \/ FieldPrompt(KeysWide)
    \/ ConfirmPrompt
    \/ Interrupt
    \/ EndOfFile

SpecInput == InitInput /\ [][NextInput]_vars

\* v is a number of the range the prompt of field i asks for
InRange(i, v) ==
    /\ FLe(Zero, v)
    /\ ~IsNone(FieldMax(i)) => FLe(v, FieldValue(i, FieldMax(i)))

ValidTeam(t) ==
    /\ FLe(Zero, t.time_avg) /\ FLe(Zero, t.base_avg) /\ FLe(Zero, t.allow)
    /\ FLe(Zero, t.pitcher.era)
    /\ \A r \in {t.over_rate, t.team_batting, t.team_obp, t.pitcher.baa} :
          FLe(Zero, r) /\ FLe(r, Num(1, 1))

\* C4: a non-numeric or out-of-range entry never reaches the engine: every value
\* safe_input returns is a number v with min_val <= v and v <= max_val, so every
\* team dictionary passed to calculate_scores has averages and era >= 0 and rates
\* in [0, 1].
C4_OnlyNumbersInRange ==
    /\ \A i \in 1..Len(team) : InRange(i, team[i])
    /\ pc = "calc_full" => ValidTeam(home) /\ ValidTeam(away)

\* C2: a (None, None) of calculate_scores is never passed on to
\* run_probability_models or to display_results in the same round: main checks
\* for it first.
C2_NoneScoresNotPassedOn ==
    /\ pc \in {"models_full", "display"} => ~IsNone(full_scores[1]) /\ ~IsNone(full_scores[2])
    /\ pc \in {"models_base", "display"} => ~IsNone(base_scores[1]) /\ ~IsNone(base_scores[2])

\* C5: a KeyboardInterrupt at any interactive input point ends the session at
\* once and cleanly: no uncaught exception, no further round.
C5_InterruptEndsCleanly ==
    [][ Interrupt => status' \in {"ended", "exit0"} /\ rounds' = rounds ]_vars

====
